---------------------------- MODULE Spec2Model ----------------------------
(***************************************************************************)
(* flacparse: the FLAC signature check, the metadata block scanner and the *)
(* Vorbis comment decoder of src/src/lib.rs, run over a buffered reader.   *)
(*                                                                         *)
(* A byte is a number in 0..255, a String is the sequence of its UTF-8     *)
(* bytes, and a HashMap<String, String> is a set of <<key, value>> pairs   *)
(* with at most one pair per key.                                          *)
(***************************************************************************)
EXTENDS Integers, Sequences, FiniteSets

VARIABLES
    input,          \* the layout the byte stream was built from (never changes)
    data,           \* the bytes of the stream behind the reader (never changes)
    pos,            \* R: bytes the reader has handed out (the cursor)
    filled,         \* R: the reader's buffer holds data[pos+1 .. filled]
    pc,             \* where parse() stands
    result,         \* what parse() returned, or that the thread panicked
    vendor_string,  \* parse_vorbis_comments: vendor_string
    ncomments,      \* parse_vorbis_comments: ncomments
    comments,       \* parse_vorbis_comments: comments
    i,              \* parse_vorbis_comments: iterations of the for loop done
    nheaders,       \* search_comment_block: block headers read so far
    hdr_at,         \* search_comment_block: offset of the header read last
    cstart          \* offset at which parse_vorbis_comments was entered (0: not)

vars == <<input, data, pos, filled, pc, result, vendor_string, ncomments,
          comments, i, nheaders, hdr_at, cstart>>

(***************************************************************************)
(* Bounds of the model.                                                    *)
(***************************************************************************)
BufCap == 6         \* capacity of the reader's buffer
MaxPre == 2         \* metadata blocks before the comment block
MaxBody == 4        \* body bytes of a block that is not a comment block
MaxComments == 2    \* entries of a comment block
MaxCut == 2         \* bytes missing at the end of a truncated stream

Min(a, b) == IF a < b THEN a ELSE b

(***************************************************************************)
(* Results of parse(): io::Result<MusicMetaData>, or a panic.              *)
(***************************************************************************)
NoMap == {}

Running == [tag |-> "Running", kind |-> "", msg |-> "", map |-> NoMap]

Ok(m) == [tag |-> "Ok", kind |-> "", msg |-> "", map |-> m]

Err(kind, msg) == [tag |-> "Err", kind |-> kind, msg |-> msg, map |-> NoMap]

Panic == [tag |-> "Panic", kind |-> "", msg |-> "assertion failed", map |-> NoMap]

\* read_exact on a source that ends early (std::io)
ErrEof == Err("UnexpectedEof", "failed to fill whole buffer")

\* read_to_string on bytes that are no UTF-8 (std::io)
ErrUtf8 == Err("InvalidData", "stream did not contain valid UTF-8")

ErrNotFlac == Err("InvalidData", "could not parse any metadata")

ErrNoCommentBlock == Err("UnexpectedEof", "no comment block")

ErrSplit == Err("InvalidData", "malformed FLAC file, could not split user comment")

(***************************************************************************)
(* The reader R: Read + BufRead, a BufReader of capacity BufCap over a     *)
(* source that delivers any positive number of bytes per read.             *)
(***************************************************************************)

\* The states a run of Read::read calls can leave the reader in when asked
\* for n bytes from cursor p with the buffer filled up to f. Each call copies
\* from the buffer; on an empty buffer it refills it with 1..BufCap bytes of
\* the source or, for a request of at least the capacity, reads around it;
\* the run ends early only at the end of the stream. So the cursor ends at
\* p + n or at the end of the stream, and the buffer ends empty or, when the
\* last call was a refill, holding up to BufCap - 1 bytes beyond the cursor.
read_loop(p, f, n) ==
    IF p + n <= f THEN {[pos |-> p + n, filled |-> f]}
    ELSE IF p + n > Len(data) THEN {[pos |-> Len(data), filled |-> Len(data)]}
    ELSE {[pos |-> p + n, filled |-> g] : g \in (p + n)..Min(p + n + BufCap - 1, Len(data))}

\* BufRead::consume(amt) as BufReader does it: the cursor moves inside the
\* buffer and no further.
consume(p, f, amt) == Min(p + amt, f)

\* The bytes handed out between two cursor positions.
Bytes(p, q) == SubSeq(data, p + 1, q)

\* LittleEndian::read_u32. A value of 2^30 or more is held as 2^30: the code
\* only compares these values with byte counts and loop counters, which stay
\* far below either.
le_u32(b) ==
    IF b[4] >= 64 THEN 1073741824
    ELSE b[1] + 256 * b[2] + 65536 * b[3] + 16777216 * b[4]

\* BigEndian::read_u32
be_u32(b) == 16777216 * b[1] + 65536 * b[2] + 256 * b[3] + b[4]

\* String::from_utf8's check of the bytes read_to_string collected.
RECURSIVE utf8_valid(_)
utf8_valid(b) ==
    LET n == Len(b)
        cont(j) == j <= n /\ b[j] >= 128 /\ b[j] <= 191
        in(j, lo, hi) == j <= n /\ b[j] >= lo /\ b[j] <= hi
        rest(k) == utf8_valid(SubSeq(b, k + 1, n))
    IN  IF n = 0 THEN TRUE
        ELSE IF b[1] < 128 THEN rest(1)
        ELSE IF b[1] >= 194 /\ b[1] <= 223 THEN cont(2) /\ rest(2)
        ELSE IF b[1] = 224 THEN in(2, 160, 191) /\ cont(3) /\ rest(3)
        ELSE IF b[1] = 237 THEN in(2, 128, 159) /\ cont(3) /\ rest(3)
        ELSE IF b[1] >= 225 /\ b[1] <= 239 THEN cont(2) /\ cont(3) /\ rest(3)
        ELSE IF b[1] = 240 THEN in(2, 144, 191) /\ cont(3) /\ cont(4) /\ rest(4)
        ELSE IF b[1] >= 241 /\ b[1] <= 243 THEN cont(2) /\ cont(3) /\ cont(4) /\ rest(4)
        ELSE IF b[1] = 244 THEN in(2, 128, 143) /\ cont(3) /\ cont(4) /\ rest(4)
        ELSE FALSE

\* read_n: the Result<String> for the bytes `text` that take(bytes_to_read)
\* let through before the stream ended.
read_n(text, bytes_to_read) ==
    IF ~utf8_valid(text) THEN ErrUtf8
    ELSE IF bytes_to_read # Len(text) THEN Panic
    ELSE Ok(NoMap)

\* A split at the first separator only, as str::splitn(2, '=').
split_first(s, sep) ==
    IF {j \in 1..Len(s) : s[j] = sep} = {} THEN <<s>>
    ELSE LET j == CHOOSE x \in 1..Len(s) : s[x] = sep /\ \A y \in 1..(x - 1) : s[y] # sep
         IN  <<SubSeq(s, 1, j - 1), SubSeq(s, j + 1, Len(s))>>

\* A split that pads a text without separator to two pieces.
split_pad(s, sep) ==
    IF {j \in 1..Len(s) : s[j] = sep} = {} THEN <<s, <<>>>>
    ELSE LET j == CHOOSE x \in 1..Len(s) : s[x] = sep /\ \A y \in 1..(x - 1) : s[y] # sep
         IN  <<SubSeq(s, 1, j - 1), SubSeq(s, j + 1, Len(s))>>

\* str::split('='): the pieces between the separators, in order.
RECURSIVE split(_, _)
split(s, sep) ==
    LET at == {j \in 1..Len(s) : s[j] = sep}
    IN  IF at = {} THEN <<s>>
        ELSE LET j == CHOOSE x \in at : \A y \in at : x <= y
             IN  <<SubSeq(s, 1, j - 1)>> \o split(SubSeq(s, j + 1, Len(s)), sep)

\* An insert that keeps the value a key already has.
insert_keep_first(m, k, v) == IF \E p \in m : p[1] = k THEN m ELSE m \cup {<<k, v>>}

\* HashMap::insert
insert(m, k, v) == {p \in m : p[1] # k} \cup {<<k, v>>}

\* HashMap::get, as the set of the values found (none or one)
get(m, k) == {p[2] : p \in {q \in m : q[1] = k}}

STR_TITLE == <<84, 73, 84, 76, 69>>
STR_ARTIST == <<65, 82, 84, 73, 83, 84>>
STR_ALBUM == <<65, 76, 66, 85, 77>>
STR_TRACKNUMBER == <<84, 82, 65, 67, 75, 78, 85, 77, 66, 69, 82>>

title(r) == get(r.map, STR_TITLE)
artist(r) == get(r.map, STR_ARTIST)
album(r) == get(r.map, STR_ALBUM)
tracknumber(r) == get(r.map, STR_TRACKNUMBER)

\* "fLaC".as_bytes()
FLAC_MAGIC == <<102, 76, 97, 67>>

\* A comparison of the first three bytes only.
is_flac_file_prefix(buffer) == SubSeq(buffer, 1, 3) = SubSeq(FLAC_MAGIC, 1, 3)

\* is_flac_file's comparison
is_flac_file(buffer) == buffer = FLAC_MAGIC

\* search_comment_block's reading of a block header
header_last(h) == (h[1] \div 128) = 1
header_blocktype(h) == h[1] % 64
header_size(h) == be_u32(<<0, h[2], h[3], h[4]>>)

(***************************************************************************)
(* The streams parse() is run on. A layout is a signature, up to MaxPre    *)
(* blocks that are no comment blocks, at most one comment block, and the   *)
(* number of bytes missing at the end.                                     *)
(***************************************************************************)
u32_le(n) == <<n % 256, (n \div 256) % 256, (n \div 65536) % 256, (n \div 16777216) % 256>>

u24_be(n) == <<(n \div 65536) % 256, (n \div 256) % 256, n % 256>>

RECURSIVE Concat(_)
Concat(ss) == IF ss = <<>> THEN <<>> ELSE Head(ss) \o Concat(Tail(ss))

EncodeHeader(last, type, len) == <<(IF last THEN 128 ELSE 0) + type>> \o u24_be(len)

EncodeBlock(b) == EncodeHeader(b.last, b.type, Len(b.body)) \o b.body

EncodeEntry(e) == u32_le(Len(e)) \o e

EncodeComments(c) ==
    u32_le(Len(c.vendor)) \o c.vendor \o u32_le(Len(c.entries))
        \o Concat([j \in 1..Len(c.entries) |-> EncodeEntry(c.entries[j])])

EncodeCommentBlock(c) ==
    EncodeHeader(c.last, 4, Len(EncodeComments(c))) \o EncodeComments(c)

EncodeAll(inp) ==
    inp.sig \o Concat([j \in 1..Len(inp.pre) |-> EncodeBlock(inp.pre[j])])
        \o Concat([j \in 1..Len(inp.cb) |-> EncodeCommentBlock(inp.cb[j])])

Encode(inp) == LET all == EncodeAll(inp) IN SubSeq(all, 1, Len(all) - Min(inp.cut, Len(all)))

\* Offset of the header of block j (the comment block is block Len(pre) + 1).
RECURSIVE BlockStart(_, _)
BlockStart(inp, j) ==
    IF j = 1 THEN Len(inp.sig)
    ELSE BlockStart(inp, j - 1) + 4 + Len(inp.pre[j - 1].body)

\* Offset of the first byte of the comment block's body.
BodyStart(inp) == BlockStart(inp, Len(inp.pre) + 1) + 4

KV(k, v) == k \o <<61>> \o v

\* Body bytes of a skipped block: a 4 (read as a header: a comment block of
\* length 0), then zeros.
BodyOf(len) == [j \in 1..len |-> IF j = 1 THEN 4 ELSE 0]

\* The blocks before the comment block: PADDING blocks (type 1) with bodies
\* of every length, and empty blocks of the reserved type 68.
PadBlocks(last) ==
    {[last |-> last, type |-> 1, body |-> BodyOf(n)] : n \in 0..MaxBody}
        \cup {[last |-> last, type |-> 68, body |-> <<>>]}

\* Only the last of them may carry the last-block flag.
MidBlocks == PadBlocks(FALSE)

EndBlocks == PadBlocks(FALSE) \cup PadBlocks(TRUE)

RECURSIVE SeqsUpTo(_, _)
SeqsUpTo(S, n) ==
    IF n = 0 THEN {<<>>}
    ELSE LET shorter == SeqsUpTo(S, n - 1)
         IN  shorter \cup {Append(s, x) : s \in {t \in shorter : Len(t) = n - 1}, x \in S}

PreSeqs == {<<>>} \cup {Append(s, e) : s \in SeqsUpTo(MidBlocks, MaxPre - 1), e \in EndBlocks}

EntryTexts ==
    { KV(STR_TITLE, <<97>>), KV(STR_TITLE, <<98>>), KV(STR_ARTIST, <<99>>),
      KV(STR_ALBUM, <<100>>), KV(STR_TRACKNUMBER, <<65, 51>>),
      KV(<<116, 105, 116, 108, 101>>, <<122>>),
      <<66, 82, 79, 75, 69, 78>>, <<65, 61, 98, 61, 99>>, <<255>> }

Vendors == {<<>>, <<195, 169>>, <<255>>}

SimpleComment(last) ==
    [last |-> last, vendor |-> <<118>>, entries |-> <<KV(STR_TITLE, <<97>>)>>]

BadSigs ==
    {SubSeq(FLAC_MAGIC, 1, n) : n \in 0..3}
        \cup {[FLAC_MAGIC EXCEPT ![j] = b] : j \in 1..4, b \in {0, 70, 108, 65, 99}}

SigInputs ==
    {[sig |-> s, pre |-> <<>>, cb |-> <<SimpleComment(FALSE)>>, cut |-> 0] :
        s \in BadSigs \cup {FLAC_MAGIC}}

ScanInputs ==
    {[sig |-> FLAC_MAGIC, pre |-> p, cb |-> c, cut |-> 0] :
        p \in PreSeqs, c \in {<<>>, <<SimpleComment(FALSE)>>, <<SimpleComment(TRUE)>>}}

DecodeInputs ==
    {[sig |-> FLAC_MAGIC, pre |-> <<>>,
      cb |-> <<[last |-> FALSE, vendor |-> v, entries |-> es]>>, cut |-> c] :
        v \in Vendors, es \in SeqsUpTo(EntryTexts, MaxComments), c \in 0..MaxCut}

Inputs == SigInputs \cup ScanInputs \cup DecodeInputs

(***************************************************************************)
(* parse() and what it calls, one action per step.                         *)
(***************************************************************************)
Init ==
    /\ input \in Inputs
    /\ data = Encode(input)
    /\ pos = 0
    /\ filled = 0
    /\ pc = "parse"
    /\ result = Running
    /\ vendor_string = <<>>
    /\ ncomments = 0
    /\ comments = NoMap
    /\ i = 0
    /\ nheaders = 0
    /\ hdr_at = 0
    /\ cstart = 0

\* parse, FlacParser::new, is_flac_file: the signature check. Any error of
\* FlacParser::new becomes parse's own.
parse ==
    /\ pc = "parse"
    /\ \E r \in read_loop(pos, filled, 4) :
        /\ pos' = r.pos
        /\ filled' = r.filled
        /\ IF r.pos - pos = 4 /\ is_flac_file(Bytes(pos, r.pos))
           THEN pc' = "search" /\ result' = result
           ELSE pc' = "done" /\ result' = ErrNotFlac
    /\ UNCHANGED <<input, data, vendor_string, ncomments, comments, i, nheaders,
                   hdr_at, cstart>>

\* search_comment_block: one turn of its loop.
search_comment_block ==
    /\ pc = "search"
    /\ \E r \in read_loop(pos, filled, 4) :
        LET h == Bytes(pos, r.pos) IN
        IF r.pos - pos # 4
        THEN /\ pos' = r.pos /\ filled' = r.filled
             /\ pc' = "done" /\ result' = ErrEof
             /\ UNCHANGED <<nheaders, hdr_at, cstart>>
        ELSE /\ nheaders' = nheaders + 1
             /\ hdr_at' = pos
             /\ filled' = r.filled
             /\ IF header_last(h)
                THEN /\ pos' = r.pos
                     /\ pc' = "done" /\ result' = ErrNoCommentBlock
                     /\ UNCHANGED cstart
                ELSE IF header_blocktype(h) = 4
                THEN /\ pos' = r.pos
                     /\ pc' = "vendor" /\ cstart' = r.pos
                     /\ UNCHANGED result
                ELSE /\ pos' = consume(r.pos, r.filled, header_size(h))
                     /\ UNCHANGED <<pc, result, cstart>>
    /\ UNCHANGED <<input, data, vendor_string, ncomments, comments, i>>

\* parse_vorbis_comments, lines 152-155: the vendor string.
read_vendor ==
    /\ pc = "vendor"
    /\ \E r \in read_loop(pos, filled, 4) :
        IF r.pos - pos # 4
        THEN /\ pos' = r.pos /\ filled' = r.filled
             /\ pc' = "done" /\ result' = ErrEof
             /\ UNCHANGED vendor_string
        ELSE LET length == le_u32(Bytes(pos, r.pos)) IN
             \E t \in read_loop(r.pos, r.filled, length) :
                LET text == Bytes(r.pos, t.pos)
                    got == read_n(text, length)
                IN  /\ pos' = t.pos /\ filled' = t.filled
                    /\ IF got.tag = "Ok"
                       THEN vendor_string' = text /\ pc' = "ncomments" /\ UNCHANGED result
                       ELSE pc' = "done" /\ result' = got /\ UNCHANGED vendor_string
    /\ UNCHANGED <<input, data, ncomments, comments, i, nheaders, hdr_at, cstart>>

\* parse_vorbis_comments, lines 157-158: the entry count and the empty map.
read_ncomments ==
    /\ pc = "ncomments"
    /\ \E r \in read_loop(pos, filled, 4) :
        /\ pos' = r.pos /\ filled' = r.filled
        /\ IF r.pos - pos # 4
           THEN pc' = "done" /\ result' = ErrEof /\ UNCHANGED <<ncomments, comments, i>>
           ELSE /\ ncomments' = le_u32(Bytes(pos, r.pos))
                /\ comments' = NoMap
                /\ i' = 0
                /\ pc' = "comments"
                /\ UNCHANGED result
    /\ UNCHANGED <<input, data, vendor_string, nheaders, hdr_at, cstart>>

\* parse_vorbis_comments, lines 161-171: one turn of the for loop.
read_comment ==
    /\ pc = "comments"
    /\ i < ncomments
    /\ \E r \in read_loop(pos, filled, 4) :
        IF r.pos - pos # 4
        THEN /\ pos' = r.pos /\ filled' = r.filled
             /\ pc' = "done" /\ result' = ErrEof
             /\ UNCHANGED <<comments, i>>
        ELSE LET length == le_u32(Bytes(pos, r.pos)) IN
             \E t \in read_loop(r.pos, r.filled, length) :
                LET text == Bytes(r.pos, t.pos)
                    got == read_n(text, length)
                    parts == split(text, 61)
                IN  /\ pos' = t.pos /\ filled' = t.filled
                    /\ IF got.tag # "Ok"
                       THEN pc' = "done" /\ result' = got /\ UNCHANGED <<comments, i>>
                       ELSE IF Len(parts) # 2
                       THEN pc' = "done" /\ result' = ErrSplit /\ UNCHANGED <<comments, i>>
                       ELSE /\ comments' = insert(comments, parts[1], parts[2])
                            /\ i' = i + 1
                            /\ UNCHANGED <<pc, result>>
    /\ UNCHANGED <<input, data, vendor_string, ncomments, nheaders, hdr_at, cstart>>

\* parse_vorbis_comments, line 173, and parse's conversion of the
\* VorbisMetadata into a MusicMetaData: the map is kept, the vendor dropped.
return_comments ==
    /\ pc = "comments"
    /\ i >= ncomments
    /\ pc' = "done"
    /\ result' = Ok(comments)
    /\ UNCHANGED <<input, data, pos, filled, vendor_string, ncomments, comments, i,
                   nheaders, hdr_at, cstart>>

Next ==
    \/ parse
    \/ search_comment_block
    \/ read_vendor
    \/ read_ncomments
    \/ read_comment
    \/ return_comments

Spec == Init /\ [][Next]_vars

(***************************************************************************)
(* What the claims speak of.                                               *)
(***************************************************************************)
EqAt(t) == {j \in 1..Len(t) : t[j] = 61}

\* A comment entry as the layout wants it: text with exactly one '='.
WellFormedEntry(t) == utf8_valid(t) /\ Cardinality(EqAt(t)) = 1

KeyOf(t) == SubSeq(t, 1, (CHOOSE j \in EqAt(t) : TRUE) - 1)

ValOf(t) == SubSeq(t, (CHOOSE j \in EqAt(t) : TRUE) + 1, Len(t))

\* The entries of the layout's comment block, and its vendor.
Entries(inp) == inp.cb[1].entries

Vendor(inp) == inp.cb[1].vendor

\* The stream holds a whole, well-formed comment block.
WellFormedComments(inp) ==
    /\ Len(inp.sig) = 4
    /\ inp.cb # <<>>
    /\ inp.cut = 0
    /\ utf8_valid(Vendor(inp))
    /\ \A j \in 1..Len(Entries(inp)) : WellFormedEntry(Entries(inp)[j])

\* The indices of the entries that are the last ones with their key.
LastOfKey(es) ==
    {j \in 1..Len(es) : \A k \in (j + 1)..Len(es) : KeyOf(es[k]) # KeyOf(es[j])}

\* The mapping a well-formed entry list stands for: every key with the value
\* of its last entry.
Expected(es) == {<<KeyOf(es[j]), ValOf(es[j])>> : j \in LastOfKey(es)}

\* The value of the last entry with key k, if any.
LastValue(es, k) == {ValOf(es[j]) : j \in {x \in LastOfKey(es) : KeyOf(es[x]) = k}}

\* Offset just behind entry k of the comment block.
EntryEnd(inp, k) ==
    BodyStart(inp) + 4 + Len(Vendor(inp)) + 4
        + Len(Concat([j \in 1..k |-> EncodeEntry(Entries(inp)[j])]))

\* The offsets at which the layout's block headers stand.
BlockStarts(inp) == {BlockStart(inp, j) : j \in 1..(Len(inp.pre) + Len(inp.cb))}

\* The decoder was handed the cursor at the body of the layout's comment block.
AtCommentBody == input.cb # <<>> /\ cstart = BodyStart(input)

\* The 7-bit block type and the last-block flag of the header read last.
HdrType == data[hdr_at + 1] % 128

HdrLast == data[hdr_at + 1] \div 128 = 1

(***************************************************************************)
(* C1: a header of block type 4 always hands the cursor to the comment     *)
(* decoder, with or without the last-block flag; a stream whose only block *)
(* is a well-formed comment block parses to its tags; and the no-comment-  *)
(* block error follows only a last-flagged block of another type.          *)
(* The code tests the flag before the type.                                *)
(***************************************************************************)
C1_CommentBlockAlwaysDecoded ==
    /\ (nheaders > 0 /\ HdrType = 4) => cstart = hdr_at + 4
    /\ result = ErrNoCommentBlock => (nheaders > 0 /\ HdrLast /\ HdrType # 4)
    /\ (pc = "done" /\ WellFormedComments(input) /\ input.sig = FLAC_MAGIC
            /\ input.pre = <<>>)
        => result = Ok(Expected(Entries(input)))

(***************************************************************************)
(* C2: decoding a well-formed comment block body returns the mapping whose *)
(* keys are exactly the entries' keys, each with the value of its last     *)
(* entry, and title/artist/album/tracknumber return the value of exactly   *)
(* TITLE/ARTIST/ALBUM/TRACKNUMBER, or nothing.                             *)
(***************************************************************************)
C2_LastEntryWins ==
    (pc = "done" /\ AtCommentBody /\ WellFormedComments(input)) =>
        LET es == Entries(input) IN
        /\ result.tag = "Ok"
        /\ {p[1] : p \in result.map} = {KeyOf(es[j]) : j \in 1..Len(es)}
        /\ \A p \in result.map : LastValue(es, p[1]) = {p[2]}
        /\ Cardinality(result.map) = Cardinality({p[1] : p \in result.map})
        /\ title(result) = LastValue(es, STR_TITLE)
        /\ artist(result) = LastValue(es, STR_ARTIST)
        /\ album(result) = LastValue(es, STR_ALBUM)
        /\ tracknumber(result) = LastValue(es, STR_TRACKNUMBER)

\* TITLE=a then TITLE=b was decoded: the title is b.
C2_Witness ==
    /\ pc = "done" /\ AtCommentBody /\ WellFormedComments(input)
    /\ Len(Entries(input)) >= 2
    /\ \E j \in 1..Len(Entries(input)) : j \notin LastOfKey(Entries(input))
    /\ result.tag = "Ok"
    /\ title(result) = {<<98>>}
    /\ artist(result) = {}

(***************************************************************************)
(* C3: a vendor or entry length that exceeds the bytes left in the stream  *)
(* ends the parse with the I/O exhaustion error: never with a panic (the   *)
(* assert_eq of read_n holds) and never with a mapping.                    *)
(* read_to_string returns the short count and the assert_eq fails.         *)
(***************************************************************************)
\* The stream ends inside the text of the last entry of a comment block
\* whose vendor and entries are well-formed.
CutInsideText(inp) ==
    /\ Len(inp.sig) = 4 /\ inp.cb # <<>> /\ inp.cut > 0
    /\ Entries(inp) # <<>>
    /\ inp.cut <= Len(Entries(inp)[Len(Entries(inp))])
    /\ utf8_valid(Vendor(inp))
    /\ \A j \in 1..Len(Entries(inp)) : WellFormedEntry(Entries(inp)[j])

C3_TruncatedIsAnError ==
    (pc = "done" /\ AtCommentBody /\ CutInsideText(input)) =>
        /\ result.tag # "Panic"
        /\ result = ErrEof

(***************************************************************************)
(* C4: a stream whose first 4 bytes are not fLaC fails with the not-a-FLAC *)
(* error without the scanner reading any header, and the signature check   *)
(* takes exactly 4 bytes from the cursor (all there are of a shorter       *)
(* stream).                                                                *)
(***************************************************************************)
StartsWithMagic == Len(data) >= 4 /\ SubSeq(data, 1, 4) = FLAC_MAGIC

C4_NotFlac ==
    /\ (pc # "parse" /\ ~StartsWithMagic) =>
            /\ pc = "done"
            /\ result = ErrNotFlac
            /\ nheaders = 0 /\ cstart = 0
            /\ pos = Min(4, Len(data))
    /\ (pc = "search" /\ nheaders = 0) => pos = 4

\* A stream of 4 bytes or more with a wrong signature was refused.
C4_Witness ==
    /\ pc = "done" /\ Len(data) > 4 /\ SubSeq(data, 1, 3) = SubSeq(FLAC_MAGIC, 1, 3)
    /\ ~StartsWithMagic
    /\ result = ErrNotFlac /\ pos = 4 /\ nheaders = 0

(***************************************************************************)
(* C5: a well-formed stream with no block of type 4 up to and including    *)
(* its first last-flagged block fails with the no-comment-block error, and *)
(* no header behind that block is read.                                    *)
(* The code masks the type to 6 bits (68 reads as 4) and skips bodies only *)
(* as far as the reader has buffered.                                      *)
(***************************************************************************)
C5_NoCommentBlock ==
    (pc = "done" /\ input.sig = FLAC_MAGIC /\ input.cut = 0
        /\ input.pre # <<>> /\ input.pre[Len(input.pre)].last) =>
            /\ result = ErrNoCommentBlock
            /\ nheaders = Len(input.pre)
            /\ hdr_at = BlockStart(input, Len(input.pre))

(***************************************************************************)
(* C6: an entry without '=' ends the parse with the malformed-data error   *)
(* at that entry, however many well-formed entries precede it, and no      *)
(* mapping is returned.                                                    *)
(***************************************************************************)
\* Entry k has no '=' and every entry before it is well-formed.
FirstBadLacksEq(inp, k) ==
    /\ Len(inp.sig) = 4 /\ inp.cb # <<>> /\ inp.cut = 0
    /\ utf8_valid(Vendor(inp))
    /\ k \in 1..Len(Entries(inp))
    /\ EqAt(Entries(inp)[k]) = {}
    /\ \A j \in 1..(k - 1) : WellFormedEntry(Entries(inp)[j])

C6_MissingSeparator ==
    \A k \in 1..MaxComments + 1 :
        (pc = "done" /\ AtCommentBody /\ FirstBadLacksEq(input, k)) =>
            /\ result \in {ErrSplit, ErrUtf8}
            /\ utf8_valid(Entries(input)[k]) => result = ErrSplit
            /\ result.map = NoMap
            /\ i = k - 1
            /\ pos = EntryEnd(input, k)

\* BROKEN behind a well-formed entry was refused.
C6_Witness ==
    /\ pc = "done" /\ AtCommentBody /\ FirstBadLacksEq(input, 2)
    /\ utf8_valid(Entries(input)[2])
    /\ result = ErrSplit /\ i = 1 /\ comments # NoMap

(***************************************************************************)
(* C7: behind the header of a block that is neither a comment block nor    *)
(* the last block the scanner moves the cursor by exactly the declared     *)
(* length, whatever the reader has buffered, so that no skipped byte is    *)
(* read as a header or as comment data: a PADDING block before a comment   *)
(* block yields the comment block's tags.                                  *)
(* consume moves the cursor no further than the reader's buffer reaches.   *)
(***************************************************************************)
C7_SkipsExactly ==
    /\ (pc = "search" /\ nheaders > 0 /\ hdr_at \in BlockStarts(input)) =>
            pos = hdr_at + 4 + header_size(Bytes(hdr_at, hdr_at + 4))
    /\ (pc = "done" /\ WellFormedComments(input) /\ input.sig = FLAC_MAGIC
            /\ ~input.cb[1].last
            /\ \A j \in 1..Len(input.pre) : input.pre[j].type = 1 /\ ~input.pre[j].last)
        => result = Ok(Expected(Entries(input)))

(***************************************************************************)
(* C8: signature mismatch, no comment block, malformed comment data and a  *)
(* short or failed read (a stream of fewer than 4 bytes included) reach    *)
(* the caller of parse as pairwise different error kinds: the kind tells   *)
(* the cause.                                                              *)
(* The code has two kinds for the four causes, and parse reports a stream  *)
(* of fewer than 4 bytes as a signature mismatch.                          *)
(***************************************************************************)
Causes == {"NotFlac", "NoCommentBlock", "MalformedData", "Io"}

\* Why the parse failed: the place in the code the error comes from, and for
\* parse's own error whether the stream had 4 bytes to compare.
Cause ==
    IF result = ErrNotFlac THEN (IF Len(data) < 4 THEN "Io" ELSE "NotFlac")
    ELSE IF result = ErrNoCommentBlock THEN "NoCommentBlock"
    ELSE IF result \in {ErrSplit, ErrUtf8} THEN "MalformedData"
    ELSE "Io"

\* The error kind the code reports a cause with.
KindOfCause(c) ==
    IF c = "NotFlac" THEN ErrNotFlac.kind
    ELSE IF c = "NoCommentBlock" THEN ErrNoCommentBlock.kind
    ELSE IF c = "MalformedData" THEN ErrSplit.kind
    ELSE ErrEof.kind

C8_DistinctErrorKinds ==
    (pc = "done" /\ result.tag = "Err") =>
        \A c \in Causes : result.kind = KindOfCause(c) => Cause = c

(***************************************************************************)
(* C9: of a header (b0, b1, b2, b3) the last-block flag is bit 7 of b0,    *)
(* the block type the low 7 bits of b0 and the length b1 * 65536 +         *)
(* b2 * 256 + b3; only a header whose 7-bit type is 4 is handed to the     *)
(* comment decoder.                                                        *)
(* The code masks the type with 0b0111111, which is 6 bits.                *)
(***************************************************************************)
C9_HeaderDecoding ==
    nheaders > 0 =>
        LET h == Bytes(hdr_at, hdr_at + 4) IN
        /\ header_last(h) = (h[1] >= 128)
        /\ header_size(h) = h[2] * 65536 + h[3] * 256 + h[4]
        /\ header_blocktype(h) = h[1] % 128
        /\ cstart > 0 => h[1] % 128 = 4

(***************************************************************************)
(* C10 as stated: an entry with at least one '=' is split at the first '=' *)
(* only, the key before it and the value all text behind it, so that       *)
(* K=a=b is stored as K with value a=b.                                    *)
(***************************************************************************)
FirstEq(t) == CHOOSE j \in EqAt(t) : \A k \in EqAt(t) : j <= k

KeyAtFirstEq(t) == SubSeq(t, 1, FirstEq(t) - 1)

ValAtFirstEq(t) == SubSeq(t, FirstEq(t) + 1, Len(t))

\* The stream holds a whole comment block whose entries are text with at
\* least one '='.
EntriesWithEq(inp) ==
    /\ Len(inp.sig) = 4 /\ inp.cb # <<>> /\ inp.cut = 0
    /\ utf8_valid(Vendor(inp))
    /\ \A j \in 1..Len(Entries(inp)) :
            utf8_valid(Entries(inp)[j]) /\ EqAt(Entries(inp)[j]) # {}

C10_SplitAtFirstEq ==
    (pc = "done" /\ AtCommentBody /\ EntriesWithEq(input)) =>
        LET es == Entries(input) IN
        /\ result.tag = "Ok"
        /\ \A j \in 1..Len(es) : \E p \in result.map : p[1] = KeyAtFirstEq(es[j])
        /\ \A p \in result.map :
                \E j \in 1..Len(es) : p = <<KeyAtFirstEq(es[j]), ValAtFirstEq(es[j])>>

(***************************************************************************)
(* C10 as amended: an entry with exactly one '=' is stored with the text   *)
(* before the '=' as key and the text behind it as value; an entry with    *)
(* more than one '=', such as K=a=b, is refused with the malformed-data    *)
(* error and nothing is stored.                                            *)
(***************************************************************************)
\* The entries that have more than one '='.
ManyEq(es) == {j \in 1..Len(es) : Cardinality(EqAt(es[j])) > 1}

C10_SplitExactlyOneEq ==
    (pc = "done" /\ AtCommentBody /\ EntriesWithEq(input)) =>
        LET es == Entries(input) IN
        IF ManyEq(es) = {}
        THEN /\ result.tag = "Ok"
             /\ \A j \in 1..Len(es) : \E p \in result.map : p[1] = KeyAtFirstEq(es[j])
             /\ \A p \in result.map :
                    \E j \in 1..Len(es) : p = <<KeyAtFirstEq(es[j]), ValAtFirstEq(es[j])>>
        ELSE /\ result = ErrSplit
             /\ i = (CHOOSE j \in ManyEq(es) : \A k \in ManyEq(es) : j <= k) - 1
             /\ result.map = NoMap

\* A=b=c behind a well-formed entry was refused.
C10_Witness ==
    /\ pc = "done" /\ AtCommentBody /\ EntriesWithEq(input)
    /\ Len(Entries(input)) = 2
    /\ ManyEq(Entries(input)) = {2}
    /\ result = ErrSplit /\ i = 1 /\ comments # NoMap

=============================================================================
